---------------------------- MODULE Spec2Model ----------------------------
(***************************************************************************)
(* ImmoBot: the listing registry (LISTINGS), its chat-message              *)
(* representations and the listings.json snapshot.                         *)
(*                                                                         *)
(* Every slash command, message command and on_ready is one action: the    *)
(* handler runs from its first line to its return or to the exception     *)
(* that ends it.  Each external chat call of a handler (send, edit,        *)
(* delete, fetch, respond) has an outcome the environment chooses: a       *)
(* call on a message that no longer exists always fails, any other call    *)
(* succeeds or raises a discord exception.  Python exceptions raised by    *)
(* the code itself (AttributeError on a None message, KeyError, ...) are   *)
(* modelled where the code raises them.                                    *)
(***************************************************************************)
EXTENDS Integers, Sequences, FiniteSets, TLC

VARIABLES
    LISTINGS,   \* classes.py LISTINGS: guild id -> list of Listing
    FILE,       \* listings.json: [exists, data], data: guild key -> list of records
    live,       \* the chat platform: message id -> [channel, title] of each existing message
    nextMsg,    \* the next message id the platform hands out
    last,       \* the last handler that changed anything: [op, out, at], at: the call that raised
    inflight    \* the command that is suspended at an external call: [op, guild, index]

vars == <<LISTINGS, FILE, live, nextMsg, last, inflight>>

---------------------------------------------------------------------------
(* Bounds of the model *)

NumGuilds == 2      \* guilds the bot is a member of
MaxId == 2          \* expose ids that occur in URLs
MaxMsg == 2         \* messages the platform creates in one behaviour
MaxListings == 2    \* listings in the registry, over all guilds
MaxEdited == 1      \* fields of listings, in the registry and the file, that an edit has changed
MaxCorrupt == 1     \* records of listings.json damaged by hand at one time

Guilds == 1..NumGuilds
Ids == 1..MaxId

---------------------------------------------------------------------------
(* Python values *)

None == "None"                      \* None, where the other values are strings
Null == "null"                      \* JSON null
NoMessage == [id |-> 0, channel |-> 0]   \* Listing.message is None
NoTime == 0                         \* Listing.tour_time is None

\* class Tag(Enum): the members, in definition order
Tag == <<"Tag.NORMAL", "Tag.MEDIUM", "Tag.BAD", "Tag.FAR", "Tag.EXPENSIVE">>
\* tag.name of each member
TagNames == <<"NORMAL", "MEDIUM", "BAD", "FAR", "EXPENSIVE">>

IsTag(t) == \E k \in 1..Len(Tag) : Tag[k] = t
\* tag.name; a str has no attribute name
TagName(t) == TagNames[CHOOSE k \in 1..Len(Tag) : Tag[k] = t]
IsTagName(n) == \E k \in 1..Len(TagNames) : TagNames[k] = n
\* Tag[name]; KeyError when IsTagName(name) is false
TagByName(n) == Tag[CHOOSE k \in 1..Len(TagNames) : TagNames[k] = n]

\* class ModificationMode(Enum)
ModificationMode == {"ADD", "REMOVE"}

\* datetime values the commands set (instants 1..), and datetime.isoformat()
IsoTable == <<"2026-11-02T10:30:00">>
Times == 1..Len(IsoTable)
isoformat(t) == IsoTable[t]
IsIso(s) == \E t \in Times : IsoTable[t] = s
\* datetime.fromisoformat(s); ValueError when IsIso(s) is false
fromisoformat(s) == CHOOSE t \in Times : IsoTable[t] = s

\* json.dump writes an int key as a str, load_all_listings reads it with int()
KeyTable == <<"1", "2", "3">>
str(g) == KeyTable[g]
int(k) == CHOOSE g \in 1..Len(KeyTable) : KeyTable[g] = k

\* dict operations
DictSet(d, k, v) == [x \in (DOMAIN d) \cup {k} |-> IF x = k THEN v ELSE d[x]]
DictPop(d, k) == [x \in (DOMAIN d) \ {k} |-> d[x]]
EmptyDict == [x \in {} |-> <<>>]

\* list.remove at a known index
RemoveAt(s, i) == [k \in 1..(Len(s) - 1) |-> IF k < i THEN s[k] ELSE s[k + 1]]

---------------------------------------------------------------------------
(* The chat platform *)

\* @dataclass Channels: the five channels of a guild, in field order
ChannelNames == <<"new", "awaiting_answer", "awaiting_tour", "denied", "accepted">>
\* CHANNELS[guild].<field>.id
ChannelId(g, k) == 10 * g + k
ChannelGuild(c) == c \div 10
NewChannel(g) == ChannelId(g, 1)

\* Listing.url
url(id) == id

---------------------------------------------------------------------------
(* class Listing *)

\* Listing.__init__
Listing(listing_id, tag) ==
    [id |-> listing_id, tags |-> <<tag>>, message |-> NoMessage,
     address |-> None, tour_time |-> NoTime]

\* Listing.build_embed raises AttributeError on a tag that is a str
CanBuildEmbed(l) == \A k \in 1..Len(l.tags) : IsTag(l.tags[k])

\* Listing.build_embed: the title is all the model keeps of the embed
build_embed(l) == url(l.id)

\* Listing.add_tag without the membership test of line 107
add_tag_always_appends(l, tag) ==
    [l EXCEPT !.tags = Append(@, tag)]

\* Listing.add_tag
add_tag(l, tag) ==
    IF \E k \in 1..Len(l.tags) : l.tags[k] = tag
    THEN l
    ELSE [l EXCEPT !.tags = Append(@, tag)]

\* Listing.remove_tag: list.remove drops the first occurrence
remove_tag(l, tag) ==
    IF \E k \in 1..Len(l.tags) : l.tags[k] = tag
    THEN [l EXCEPT !.tags =
            RemoveAt(@, CHOOSE k \in 1..Len(@) :
                          @[k] = tag /\ \A j \in 1..(k - 1) : @[j] # tag)]
    ELSE l

\* Listing.serialize raises AttributeError when message is None or a tag is a str
CanSerialize(l) == l.message # NoMessage /\ CanBuildEmbed(l)

\* Listing.serialize
serialize(l) ==
    [id |-> l.id,
     tags |-> [k \in 1..Len(l.tags) |-> TagName(l.tags[k])],
     message |-> l.message.id,
     channel |-> l.message.channel,
     address |-> IF l.address = None THEN Null ELSE l.address,
     tour_time |-> IF l.tour_time # NoTime THEN isoformat(l.tour_time) ELSE Null]

\* The document save_all_listings builds from a registry
Snapshot(L) ==
    [k \in {str(g) : g \in DOMAIN L} |->
        [i \in 1..Len(L[int(k)]) |-> serialize(L[int(k)][i])]]

CanSnapshot(L) ==
    \A g \in DOMAIN L : \A i \in 1..Len(L[g]) : CanSerialize(L[g][i])

\* Listing.save_all_listings: the file after the call, and the exception it raised
save_all_listings(L, F) ==
    IF CanSnapshot(L)
    THEN [F |-> [exists |-> TRUE, data |-> Snapshot(L)], exc |-> "none"]
    ELSE [F |-> F, exc |-> "AttributeError"]

\* Listing.get_from_id: the index of the first listing with the id, 0 for None
get_from_id(L, guild, requested_id) ==
    IF guild \notin DOMAIN L THEN 0
    ELSE IF \E i \in 1..Len(L[guild]) : L[guild][i].id = requested_id
         THEN CHOOSE i \in 1..Len(L[guild]) :
                 /\ L[guild][i].id = requested_id
                 /\ \A j \in 1..(i - 1) : L[guild][j].id # requested_id
         ELSE 0

---------------------------------------------------------------------------
(* What a handler leaves behind *)

Outcome(L, F, lv, n, out, at) ==
    [L |-> L, F |-> F, live |-> lv, next |-> n, out |-> out, at |-> at]

\* No command is suspended
Idle == [op |-> "idle", guild |-> 0, index |-> 0]

\* The listings of a registry, over all guilds: <<guild, index>>
AllListings(L) == UNION {{<<g, i>> : i \in 1..Len(L[g])} : g \in DOMAIN L}
Size(L) == Cardinality(AllListings(L))

\* The fields <<guild, id, field>> that hold an edited value in the registry
Edited(L) ==
    UNION {LET l == L[p[1]][p[2]]
           IN  (IF l.tags # <<Tag[1]>> THEN {<<p[1], l.id, "tags">>} ELSE {})
               \cup (IF l.address # None THEN {<<p[1], l.id, "address">>} ELSE {})
               \cup (IF l.tour_time # NoTime THEN {<<p[1], l.id, "tour_time">>} ELSE {})
           : p \in AllListings(L)}

\* ... and in the records of the file
EditedInFile(F) ==
    UNION {UNION {LET d == F.data[k][i]
                  IN  (IF d.tags # <<TagNames[1]>> THEN {<<int(k), d.id, "tags">>} ELSE {})
                      \cup (IF "address" \in DOMAIN d /\ d.address # Null
                            THEN {<<int(k), d.id, "address">>} ELSE {})
                      \cup (IF d.tour_time # Null THEN {<<int(k), d.id, "tour_time">>} ELSE {})
                  : i \in 1..Len(F.data[k])}
           : k \in DOMAIN F.data}

\* The states the model follows: a bounded registry, and a bounded number of
\* edited fields in the registry and the file together
InBounds(r) ==
    /\ Size(r.L) <= MaxListings
    /\ Cardinality(Edited(r.L) \cup EditedInFile(r.F)) <= MaxEdited

\* A handler run that changes the registry, the file or the platform is a step,
\* recorded in last.  A run that changes none of them (a command that raises
\* at its lookup, or on its first external call) is a stuttering step
Commit(op, r) ==
    /\ r.L # LISTINGS \/ r.F # FILE \/ r.live # live
    /\ InBounds(r)
    /\ LISTINGS' = r.L
    /\ FILE' = r.F
    /\ live' = r.live
    /\ nextMsg' = r.next
    /\ last' = [op |-> op, out |-> r.out, at |-> r.at]
    /\ inflight' = inflight

---------------------------------------------------------------------------
(* bot.py: the add command *)

\* The URLs the add command is given: whether the text holds the literal
\* prefix the pattern searches for, the digits after it, and what follows
Urls ==
    {[prefix |-> TRUE, digits |-> <<1>>, rest |-> ""],
     [prefix |-> TRUE, digits |-> <<2>>, rest |-> "?x=1"],
     [prefix |-> TRUE, digits |-> <<>>, rest |-> ""],
     [prefix |-> FALSE, digits |-> <<1>>, rest |-> ""],
     [prefix |-> TRUE, digits |-> <<1>>, rest |-> "abc"]}

RECURSIVE DigitsToInt(_)
DigitsToInt(ds) ==
    IF ds = <<>> THEN 0 ELSE 10 * DigitsToInt(SubSeq(ds, 1, Len(ds) - 1)) + ds[Len(ds)]

\* re.search(...) and the test of line 112: the id, 0 for "invalid url"
url_id(u) ==
    IF ~u.prefix \/ u.digits = <<>> THEN 0 ELSE DigitsToInt(u.digits)

\* add_listing with the test of line 112 moved behind the append of line 123
add_listing_appends_first(g, u, address, initial_tag, sendOK) ==
    LET l1 == Listing(url_id(u), initial_tag)
        L1 == IF g \in DOMAIN LISTINGS
              THEN [LISTINGS EXCEPT ![g] = Append(@, l1)]
              ELSE DictSet(LISTINGS, g, <<l1>>)
        i == Len(L1[g])
    IN  IF url_id(u) = 0
        THEN Outcome(L1, FILE, live, nextMsg, "invalid", "url")
        ELSE IF ~sendOK
        THEN Outcome(L1, FILE, live, nextMsg, "DiscordException", "send")
        ELSE
        LET msg == [id |-> nextMsg, channel |-> NewChannel(g)]
            L2 == [L1 EXCEPT ![g][i].message = msg]
            lv == DictSet(live, nextMsg, [channel |-> NewChannel(g), title |-> build_embed(l1)])
            s == save_all_listings(L2, FILE)
        IN  IF s.exc # "none"
            THEN Outcome(L2, s.F, lv, nextMsg + 1, s.exc, "save")
            ELSE Outcome(L2, s.F, lv, nextMsg + 1, "ok", "")

\* add_listing
add_listing(g, u, address, initial_tag, sendOK) ==
    IF url_id(u) = 0
    THEN Outcome(LISTINGS, FILE, live, nextMsg, "invalid", "url")
    ELSE
    LET l0 == Listing(url_id(u), initial_tag)
        l1 == IF address # "" /\ address # None THEN [l0 EXCEPT !.address = address] ELSE l0
        L1 == IF g \in DOMAIN LISTINGS
              THEN [LISTINGS EXCEPT ![g] = Append(@, l1)]
              ELSE DictSet(LISTINGS, g, <<l1>>)
        i == Len(L1[g])
    IN  IF ~CanBuildEmbed(l1)
        THEN Outcome(L1, FILE, live, nextMsg, "AttributeError", "build_embed")
        ELSE IF ~sendOK
        THEN Outcome(L1, FILE, live, nextMsg, "DiscordException", "send")
        ELSE
        LET msg == [id |-> nextMsg, channel |-> NewChannel(g)]
            L2 == [L1 EXCEPT ![g][i].message = msg]
            lv == DictSet(live, nextMsg, [channel |-> NewChannel(g), title |-> build_embed(l1)])
            s == save_all_listings(L2, FILE)
        IN  IF s.exc # "none"
            THEN Outcome(L2, s.F, lv, nextMsg + 1, s.exc, "save")
            ELSE Outcome(L2, s.F, lv, nextMsg + 1, "ok", "")

\* the initial_tag option: its default, Tag.NORMAL
InitialTags == {Tag[1]}
Addresses == {"Main St 1"}

Add ==
    \E g \in Guilds, u \in Urls, a \in {None},
       t \in InitialTags, sendOK \in BOOLEAN :
        /\ sendOK => nextMsg <= MaxMsg
        /\ \E r \in {add_listing(g, u, a, t, sendOK)} :
               Commit("add", r)

---------------------------------------------------------------------------
(* classes.py: re-render, and the commands that edit a listing *)

\* Listing.update_message on listing i of guild g: message.edit, then
\* save_all_listings.  [F, exc, at]: the file after the call and the exception raised
update_message(L, F, lv, g, i, editOK) ==
    LET l == L[g][i]
    IN  IF l.message = NoMessage \/ ~CanBuildEmbed(l)
        THEN [F |-> F, exc |-> "AttributeError", at |-> "edit"]
        ELSE IF l.message.id \notin DOMAIN lv \/ ~editOK
        THEN [F |-> F, exc |-> "DiscordException", at |-> "edit"]
        ELSE LET s == save_all_listings(L, F)
             IN  [F |-> s.F, exc |-> s.exc, at |-> IF s.exc = "none" THEN "" ELSE "save"]

\* Listing.set_address
set_address(L, F, lv, g, i, address, editOK) ==
    LET L1 == [L EXCEPT ![g][i].address = address]
        u == update_message(L1, F, lv, g, i, editOK)
    IN  Outcome(L1, u.F, lv, nextMsg, IF u.exc = "none" THEN "ok" ELSE u.exc, u.at)

\* Listing.set_time
set_time(L, F, lv, g, i, time, editOK) ==
    LET L1 == [L EXCEPT ![g][i].tour_time = time]
        u == update_message(L1, F, lv, g, i, editOK)
    IN  Outcome(L1, u.F, lv, nextMsg, IF u.exc = "none" THEN "ok" ELSE u.exc, u.at)

\* modify_tags: get_from_id, add_tag or remove_tag, respond, update_message
modify_tags(g, id, mode, tag, respondOK, editOK) ==
    LET i == get_from_id(LISTINGS, g, id)
    IN  IF i = 0
        THEN Outcome(LISTINGS, FILE, live, nextMsg, "AttributeError", "lookup")
        ELSE
        LET l == LISTINGS[g][i]
            L1 == [LISTINGS EXCEPT ![g][i] =
                     IF mode = "ADD" THEN add_tag(l, TagByName(tag))
                     ELSE remove_tag(l, TagByName(tag))]
        IN  IF ~respondOK
            THEN Outcome(L1, FILE, live, nextMsg, "DiscordException", "respond")
            ELSE LET u == update_message(L1, FILE, live, g, i, editOK)
                 IN  Outcome(L1, u.F, live, nextMsg,
                             IF u.exc = "none" THEN "ok" ELSE u.exc, u.at)

\* add_tour_time
add_tour_time(g, id, time, editOK) ==
    LET i == get_from_id(LISTINGS, g, id)
    IN  IF i = 0
        THEN Outcome(LISTINGS, FILE, live, nextMsg, "AttributeError", "lookup")
        ELSE set_time(LISTINGS, FILE, live, g, i, time, editOK)

\* add_address: an empty or missing address clears the field
add_address(g, id, address, editOK) ==
    LET i == get_from_id(LISTINGS, g, id)
    IN  IF i = 0
        THEN Outcome(LISTINGS, FILE, live, nextMsg, "AttributeError", "lookup")
        ELSE IF address # "" /\ address # None
        THEN set_address(LISTINGS, FILE, live, g, i, address, editOK)
        ELSE set_address(LISTINGS, FILE, live, g, i, None, editOK)

\* the tags the tag command is given
TagChoices == {"NORMAL"}

ModifyTags ==
    \E g \in Guilds, id \in Ids, mode \in ModificationMode, tag \in TagChoices,
       respondOK \in BOOLEAN, editOK \in BOOLEAN :
        \* the edit is not reached when respond raises
        /\ ~respondOK => editOK
        /\ get_from_id(LISTINGS, g, id) # 0
        /\ \E r \in {modify_tags(g, id, mode, tag, respondOK, editOK)} :
               Commit("tag", r)

AddTourTime ==
    \E g \in Guilds, id \in Ids, time \in Times, editOK \in BOOLEAN :
        /\ get_from_id(LISTINGS, g, id) # 0
        /\ \E r \in {add_tour_time(g, id, time, editOK)} :
               Commit("add-tour-date", r)

AddAddress ==
    \E g \in Guilds, id \in Ids, a \in {None} \cup Addresses, editOK \in BOOLEAN :
        /\ get_from_id(LISTINGS, g, id) # 0
        /\ \E r \in {add_address(g, id, a, editOK)} :
               Commit("add-address", r)

---------------------------------------------------------------------------
(* The remove command *)

\* Listing.delete without lines 79-80: the entry of the guild stays when its
\* last listing goes
delete_keeps_entry(L, F, lv, g, i, delOK) ==
    LET l == L[g][i]
    IN  IF l.message = NoMessage
        THEN Outcome(L, F, lv, nextMsg, "AttributeError", "guild")
        ELSE IF l.message.id \notin DOMAIN lv \/ ~delOK
        THEN Outcome(L, F, lv, nextMsg, "DiscordException", "delete")
        ELSE
        LET lv1 == DictPop(lv, l.message.id)
            gid == ChannelGuild(l.message.channel)
            j == get_from_id(L, gid, l.id)
            L1 == [L EXCEPT ![gid] = RemoveAt(@, j)]
            s == save_all_listings(L1, F)
        IN  IF s.exc # "none"
            THEN Outcome(L1, s.F, lv1, nextMsg, s.exc, "save")
            ELSE Outcome(L1, s.F, lv1, nextMsg, "ok", "")

\* Listing.delete on listing i of guild g
delete(L, F, lv, g, i, delOK) ==
    LET l == L[g][i]
    IN  IF l.message = NoMessage
        THEN Outcome(L, F, lv, nextMsg, "AttributeError", "guild")
        ELSE IF l.message.id \notin DOMAIN lv \/ ~delOK
        THEN Outcome(L, F, lv, nextMsg, "DiscordException", "delete")
        ELSE
        LET lv1 == DictPop(lv, l.message.id)
            gid == ChannelGuild(l.message.channel)
            \* list.remove(self) drops the first listing equal to self: same id
            j == get_from_id(L, gid, l.id)
            L1 == [L EXCEPT ![gid] = RemoveAt(@, j)]
            L2 == IF Len(L1[gid]) = 0 THEN DictPop(L1, gid) ELSE L1
            s == save_all_listings(L2, F)
        IN  IF s.exc # "none"
            THEN Outcome(L2, s.F, lv1, nextMsg, s.exc, "save")
            ELSE Outcome(L2, s.F, lv1, nextMsg, "ok", "")

\* remove_listing
remove_listing(g, id, delOK) ==
    LET i == get_from_id(LISTINGS, g, id)
    IN  IF i = 0
        THEN Outcome(LISTINGS, FILE, live, nextMsg, "AttributeError", "lookup")
        ELSE delete(LISTINGS, FILE, live, g, i, delOK)

Remove ==
    \E g \in Guilds, id \in Ids, delOK \in BOOLEAN :
        /\ get_from_id(LISTINGS, g, id) # 0
        /\ \E r \in {remove_listing(g, id, delOK)} :
               Commit("remove", r)

---------------------------------------------------------------------------
(* The message commands: moving a listing to another channel *)

\* get_listing_for_message: the index of the listing, 0 for None, -1 when the
\* loop reads message.id of a listing whose message is None before a match
get_listing_for_message(L, g, m) ==
    LET hit(i) == L[g][i].message = NoMessage \/ L[g][i].message.id = m
    IN  IF \E i \in 1..Len(L[g]) : hit(i)
        THEN LET i == CHOOSE i \in 1..Len(L[g]) :
                         hit(i) /\ \A j \in 1..(i - 1) : ~hit(j)
             IN  IF L[g][i].message = NoMessage THEN -1 ELSE i
        ELSE 0

\* Listing.move_to_channel that gives the listing up when the send fails: the
\* listing leaves the registry and the file is written without it
move_to_channel_forgets(L, F, lv, n, g, i, channel, delOK, sendOK) ==
    LET l == L[g][i]
    IN  IF l.message.id \notin DOMAIN lv \/ ~delOK
        THEN Outcome(L, F, lv, n, "DiscordException", "delete")
        ELSE
        LET lv1 == DictPop(lv, l.message.id)
        IN  IF ~sendOK
            THEN LET L0 == [L EXCEPT ![g] = RemoveAt(@, i)]
                 IN  Outcome(L0, save_all_listings(L0, F).F, lv1, n, "DiscordException", "send")
            ELSE
            LET new_message == [id |-> n, channel |-> channel]
                lv2 == DictSet(lv1, n, [channel |-> channel, title |-> build_embed(l)])
                L1 == [L EXCEPT ![g][i].message = new_message]
                s == save_all_listings(L1, F)
            IN  IF s.exc # "none"
                THEN Outcome(L1, s.F, lv2, n + 1, s.exc, "save")
                ELSE Outcome(L1, s.F, lv2, n + 1, "ok", "")

\* Listing.move_to_channel on listing i of guild g
move_to_channel(L, F, lv, n, g, i, channel, delOK, sendOK) ==
    LET l == L[g][i]
    IN  IF l.message.id \notin DOMAIN lv \/ ~delOK
        THEN Outcome(L, F, lv, n, "DiscordException", "delete")
        ELSE
        LET lv1 == DictPop(lv, l.message.id)
        IN  IF ~sendOK
            THEN Outcome(L, F, lv1, n, "DiscordException", "send")
            ELSE
            LET new_message == [id |-> n, channel |-> channel]
                lv2 == DictSet(lv1, n, [channel |-> channel, title |-> build_embed(l)])
                L1 == [L EXCEPT ![g][i].message = new_message]
                s == save_all_listings(L1, F)
            IN  IF s.exc # "none"
                THEN Outcome(L1, s.F, lv2, n + 1, s.exc, "save")
                ELSE Outcome(L1, s.F, lv2, n + 1, "ok", "")

\* move_listing_if_exists
move_listing_if_exists(g, m, target_channel, delOK, sendOK) ==
    IF g \notin DOMAIN LISTINGS
    THEN Outcome(LISTINGS, FILE, live, nextMsg, "KeyError", "lookup")
    ELSE
    LET ref == get_listing_for_message(LISTINGS, g, m)
    IN  IF ref = -1
        THEN Outcome(LISTINGS, FILE, live, nextMsg, "AttributeError", "lookup")
        ELSE IF ref = 0
        THEN Outcome(LISTINGS, FILE, live, nextMsg, "notfound", "lookup")
        ELSE move_to_channel(LISTINGS, FILE, live, nextMsg, g, ref,
                             target_channel, delOK, sendOK)

\* The four message commands move to every field of Channels but new
MoveTargets == {k \in 1..Len(ChannelNames) : ChannelNames[k] # "new"}

\* The messages of guild g a message command can be invoked on: the existing
\* ones, and a listing's message deleted while the command was on its way
MessagesOf(g) ==
    {m \in DOMAIN live : ChannelGuild(live[m].channel) = g}
    \cup (IF g \in DOMAIN LISTINGS
          THEN {LISTINGS[g][i].message.id : i \in 1..Len(LISTINGS[g])} \ {0}
          ELSE {})

Move ==
    \E g \in Guilds, k \in MoveTargets, delOK \in BOOLEAN, sendOK \in BOOLEAN :
      \E m \in MessagesOf(g) :
        /\ sendOK => nextMsg <= MaxMsg
        \* the send is not reached when the delete raises
        /\ ~delOK => sendOK
        /\ \E r \in {move_listing_if_exists(g, m, ChannelId(g, k), delOK, sendOK)} :
               Commit("move", r)

---------------------------------------------------------------------------
(* classes.py: reload.  on_ready calls load_all_listings *)

\* Listing.deserialize of one record, with the registry and the file as they
\* are when it runs.  fetch: fetch_channel and fetch_message succeed unless the
\* message is gone; editOK: message.edit succeeds.  ok: a listing is returned,
\* not None; exc: an exception that is no DiscordException leaves the method
deserialize(data, fetchOK, editOK, L, F, lv) ==
    LET fail(e) == [ok |-> FALSE, listing |-> Listing(0, Tag[1]), F |-> F, live |-> lv, exc |-> e]
    IN  IF ~fetchOK \/ data.message \notin DOMAIN lv
        THEN fail("none")
        ELSE IF "address" \notin DOMAIN data
        THEN fail("KeyError")
        ELSE IF \E k \in 1..Len(data.tags) : ~IsTagName(data.tags[k])
        THEN fail("KeyError")
        ELSE IF data.tour_time # Null /\ ~IsIso(data.tour_time)
        THEN fail("ValueError")
        ELSE
        LET listing ==
                [id |-> data.id,
                 tags |-> [k \in 1..Len(data.tags) |-> TagByName(data.tags[k])],
                 message |-> [id |-> data.message, channel |-> lv[data.message].channel],
                 address |-> IF data.address = Null THEN None ELSE data.address,
                 tour_time |-> IF data.tour_time # Null
                               THEN fromisoformat(data.tour_time) ELSE NoTime]
        IN  \* update_message: message.edit, then save_all_listings
            IF ~editOK
            THEN fail("none")
            ELSE LET s == save_all_listings(L, F)
                     lv1 == [lv EXCEPT ![data.message].title = build_embed(listing)]
                 IN  [ok |-> s.exc = "none", listing |-> listing, F |-> s.F,
                      live |-> lv1, exc |-> s.exc]

\* The records of the file in the order the two loops of load_all_listings
\* visit them, given the order of the guild keys in the document
RECURSIVE Records(_, _)
Records(data, keys) ==
    IF keys = <<>> THEN <<>>
    ELSE [i \in 1..Len(data[Head(keys)]) |-> [gid |-> int(Head(keys)), data |-> data[Head(keys)][i]]]
         \o Records(data, Tail(keys))

\* The loops of load_all_listings from record j on, and the final save
RECURSIVE load_loop(_, _, _, _, _, _, _)
load_loop(recs, fetch, edit, j, L, F, lv) ==
    IF j > Len(recs)
    THEN LET s == save_all_listings(L, F)
         IN  Outcome(L, s.F, lv, nextMsg, IF s.exc = "none" THEN "ok" ELSE s.exc,
                     IF s.exc = "none" THEN "" ELSE "save")
    ELSE
    LET d == deserialize(recs[j].data, fetch[j], edit[j], L, F, lv)
        gid == recs[j].gid
    IN  IF d.exc # "none"
        THEN Outcome(L, d.F, d.live, nextMsg, d.exc, "deserialize")
        ELSE IF ~d.ok
        THEN load_loop(recs, fetch, edit, j + 1, L, d.F, d.live)
        ELSE load_loop(recs, fetch, edit, j + 1,
                       IF gid \in DOMAIN L
                       THEN [L EXCEPT ![gid] = Append(@, d.listing)]
                       ELSE DictSet(L, gid, <<d.listing>>),
                       d.F, d.live)

\* The loops of load_all_listings from record j on, in a process that stops
\* when it has dealt with record stop: the records behind it and the final
\* save are not reached
RECURSIVE load_prefix(_, _, _, _, _, _, _, _)
load_prefix(recs, fetch, edit, j, stop, L, F, lv) ==
    IF j > stop
    THEN Outcome(L, F, lv, nextMsg, "killed", "load")
    ELSE
    LET d == deserialize(recs[j].data, fetch[j], edit[j], L, F, lv)
        gid == recs[j].gid
    IN  IF d.exc # "none"
        THEN Outcome(L, d.F, d.live, nextMsg, d.exc, "deserialize")
        ELSE IF ~d.ok
        THEN load_prefix(recs, fetch, edit, j + 1, stop, L, d.F, d.live)
        ELSE load_prefix(recs, fetch, edit, j + 1, stop,
                         IF gid \in DOMAIN L
                         THEN [L EXCEPT ![gid] = Append(@, d.listing)]
                         ELSE DictSet(L, gid, <<d.listing>>),
                         d.F, d.live)

\* listings.json holds a whole JSON document.  A write that was interrupted
\* leaves [exists, data, torn]: of the document data, the file holds nothing
\* ("empty") or a proper prefix of its text ("partial")
IsDocument(F) == "torn" \notin DOMAIN F

\* Listing.load_all_listings into registry L; json.load raises JSONDecodeError
\* on a text that is no whole document
load_all_listings(L, keys, fetch, edit) ==
    IF ~FILE.exists
    THEN Outcome(L, FILE, live, nextMsg, "ok", "")
    ELSE IF ~IsDocument(FILE)
    THEN Outcome(L, FILE, live, nextMsg, "JSONDecodeError", "load")
    ELSE load_loop(Records(FILE.data, keys), fetch, edit, 1, L, FILE, live)

\* The orders in which json.load can hold the guild keys of the document
KeyOrders(data) ==
    {ks \in UNION {[1..n -> DOMAIN data] : n \in {Cardinality(DOMAIN data)}} :
        \A a, b \in 1..Len(ks) : a # b => ks[a] # ks[b]}

NumRecords(data) == Len(Records(data, CHOOSE ks \in KeyOrders(data) : TRUE))

\* What the environment decides for the records of one reload: per record,
\* whether the fetches succeed and whether the edit that follows them does
Weather(data) ==
    {w \in [1..NumRecords(data) -> {"ok", "fetch", "edit"}] : TRUE}

\* on_ready in a running process (the gateway session was re-established):
\* the listings of the file are loaded into the registry as it is
OnReady ==
    \E keys \in KeyOrders(FILE.data), w \in Weather(FILE.data) :
        \E r \in {load_all_listings(LISTINGS, keys,
                                   [j \in DOMAIN w |-> w[j] # "fetch"],
                                   [j \in DOMAIN w |-> w[j] # "edit"])} :
            Commit("on_ready", r)

\* The process starts: classes.py line 192 runs again, then on_ready
Restart ==
    \E keys \in KeyOrders(FILE.data), w \in Weather(FILE.data) :
        \E r \in {load_all_listings(EmptyDict, keys,
                                   [j \in DOMAIN w |-> w[j] # "fetch"],
                                   [j \in DOMAIN w |-> w[j] # "edit"])} :
            /\ InBounds(r)
            /\ LISTINGS' = r.L
            /\ FILE' = r.F
            /\ live' = r.live
            /\ nextMsg' = r.next
            /\ last' = [op |-> "restart", out |-> r.out, at |-> r.at]
            /\ inflight' = Idle

---------------------------------------------------------------------------
(* The environment: a member of the guild deletes a message *)

ExternalDelete ==
    \E m \in DOMAIN live :
        /\ live' = DictPop(live, m)
        /\ last' = [op |-> "external-delete", out |-> "ok", at |-> ""]
        /\ UNCHANGED <<LISTINGS, FILE, nextMsg, inflight>>

---------------------------------------------------------------------------
(* The environment: listings.json is edited by hand *)

\* A record deserialize can read: every field, known tag names, a timestamp
\* fromisoformat accepts
WellFormed(d) ==
    /\ "address" \in DOMAIN d
    /\ \A k \in 1..Len(d.tags) : IsTagName(d.tags[k])
    /\ d.tour_time = Null \/ IsIso(d.tour_time)

\* The records of the file: <<guild key, index>>
AllRecords(F) == UNION {{<<k, i>> : i \in 1..Len(F.data[k])} : k \in DOMAIN F.data}

Damaged(F) == {p \in AllRecords(F) : ~WellFormed(F.data[p[1]][p[2]])}

\* The ways the model damages a record: an unknown tag name, a timestamp that
\* is no ISO 8601 text, a missing field
DamageKinds == {"tag", "time", "field"}

Damage(d, kind) ==
    CASE kind = "tag" -> [d EXCEPT !.tags = <<"CHEAP">>]
      [] kind = "time" -> [d EXCEPT !.tour_time = "tomorrow"]
      [] kind = "field" -> [f \in (DOMAIN d) \ {"address"} |-> d[f]]

EditFile ==
    /\ FILE.exists
    /\ Cardinality(Damaged(FILE)) < MaxCorrupt
    /\ \E p \in AllRecords(FILE), kind \in DamageKinds :
        /\ WellFormed(FILE.data[p[1]][p[2]])
        /\ FILE' = [FILE EXCEPT !.data[p[1]][p[2]] = Damage(@, kind)]
        /\ last' = [op |-> "edit-file", out |-> "ok", at |-> ""]
        /\ UNCHANGED <<LISTINGS, live, nextMsg, inflight>>

---------------------------------------------------------------------------
(* Commands that overlap.  A handler is a coroutine: at an await it is
   suspended and the event loop runs other handlers.  The model suspends
   add_listing at its send; the commands of the other actions run from their
   first line to their last while it waits *)

\* add_listing up to the await of line 125: the listing is in the registry,
\* its message is None, the send has not returned
BeginAdd ==
    \E g \in Guilds, u \in Urls, t \in InitialTags :
        /\ inflight = Idle
        /\ url_id(u) # 0
        /\ \E r \in {add_listing(g, u, None, t, FALSE)} :
             /\ InBounds(r)
             /\ LISTINGS' = r.L
             /\ inflight' = [op |-> "add", guild |-> g, index |-> Len(r.L[g])]
             /\ last' = [op |-> "add", out |-> "suspended", at |-> "send"]
             /\ UNCHANGED <<FILE, live, nextMsg>>

\* add_listing from line 125 on: the send returns the message or raises
EndAdd ==
    \E sendOK \in BOOLEAN :
        /\ inflight.op = "add"
        /\ sendOK => nextMsg <= MaxMsg
        /\ inflight' = Idle
        /\ LET g == inflight.guild
               i == inflight.index
               msg == [id |-> nextMsg, channel |-> NewChannel(g)]
               L2 == [LISTINGS EXCEPT ![g][i].message = msg]
               s == save_all_listings(L2, FILE)
           IN  IF ~sendOK
               THEN /\ last' = [op |-> "add", out |-> "DiscordException", at |-> "send"]
                    /\ UNCHANGED <<LISTINGS, FILE, live, nextMsg>>
               ELSE /\ LISTINGS' = L2
                    /\ FILE' = s.F
                    /\ live' = DictSet(live, nextMsg,
                                       [channel |-> NewChannel(g),
                                        title |-> build_embed(LISTINGS[g][i])])
                    /\ nextMsg' = nextMsg + 1
                    /\ last' = [op |-> "add",
                                out |-> IF s.exc = "none" THEN "ok" ELSE s.exc,
                                at |-> IF s.exc = "none" THEN "" ELSE "save"]

---------------------------------------------------------------------------
(* The environment: a write of listings.json is interrupted *)

\* The runs of the commands from the current state, over their inputs and the
\* outcomes of their external calls
CommandRuns ==
    {add_listing(g, u, None, t, ok) :
        g \in Guilds, u \in Urls, t \in InitialTags, ok \in BOOLEAN}
    \cup {remove_listing(g, id, ok) : g \in Guilds, id \in Ids, ok \in BOOLEAN}
    \cup {modify_tags(g, id, mode, tag, rok, eok) :
             g \in Guilds, id \in Ids, mode \in ModificationMode, tag \in TagChoices,
             rok \in BOOLEAN, eok \in BOOLEAN}
    \cup {add_tour_time(g, id, time, ok) :
             g \in Guilds, id \in Ids, time \in Times, ok \in BOOLEAN}
    \cup {add_address(g, id, a, ok) :
             g \in Guilds, id \in Ids, a \in {None} \cup Addresses, ok \in BOOLEAN}
    \cup UNION {{move_listing_if_exists(g, m, ChannelId(g, k), dok, sok) :
                    m \in MessagesOf(g), k \in MoveTargets,
                    dok \in BOOLEAN, sok \in BOOLEAN} : g \in Guilds}

\* save_all_listings opens the file with mode "w", which empties it, and
\* json.dump then writes the document piece by piece.  A command reaches its
\* save, and the write ends early: the process is killed (the registry is
\* gone with it), or a write raises OSError (the command ends with it)
InterruptedSave ==
    \E r \in CommandRuns, how \in {"empty", "partial"}, killed \in BOOLEAN :
        /\ r.out = "ok"
        /\ r.next <= MaxMsg + 1
        /\ InBounds(r)
        /\ LISTINGS' = IF killed THEN EmptyDict ELSE r.L
        /\ FILE' = [exists |-> TRUE, data |-> r.F.data, torn |-> how]
        /\ live' = r.live
        /\ nextMsg' = r.next
        /\ last' = [op |-> "interrupted-save",
                    out |-> IF killed THEN "killed" ELSE "OSError", at |-> "save"]
        /\ inflight' = Idle

---------------------------------------------------------------------------

Init ==
    /\ LISTINGS = EmptyDict
    /\ FILE = [exists |-> FALSE, data |-> EmptyDict]
    /\ live = EmptyDict
    /\ nextMsg = 1
    /\ last = [op |-> "start", out |-> "ok", at |-> ""]
    /\ inflight = Idle

Next ==
    \/ Add
    \/ Remove
    \/ ModifyTags
    \/ AddTourTime
    \/ AddAddress
    \/ Move
    \/ OnReady
    \/ Restart
    \/ ExternalDelete

Spec == Init /\ [][Next]_vars

\* Reload when the file may have been edited by hand
NextFile ==
    \/ Add
    \/ OnReady
    \/ Restart
    \/ ExternalDelete
    \/ EditFile

SpecFile == Init /\ [][NextFile]_vars

\* The commands and the reload when a write can be interrupted
\* The process starts, reads the file and is killed during the loops of
\* load_all_listings, before the final save: the registry is gone with the
\* process, the file and the platform stay as the last record left them
KilledInReload ==
    /\ FILE.exists
    /\ IsDocument(FILE)
    /\ \E keys \in KeyOrders(FILE.data), w \in Weather(FILE.data) :
         \E stop \in 1..NumRecords(FILE.data) :
           \E r \in {load_prefix(Records(FILE.data, keys),
                                 [j \in DOMAIN w |-> w[j] # "fetch"],
                                 [j \in DOMAIN w |-> w[j] # "edit"],
                                 1, stop, EmptyDict, FILE, live)} :
               /\ r.out = "killed"
               /\ LISTINGS' = EmptyDict
               /\ FILE' = r.F
               /\ live' = r.live
               /\ nextMsg' = r.next
               /\ last' = [op |-> "killed-reload", out |-> "killed", at |-> "load"]
               /\ inflight' = Idle

NextCrash ==
    \/ Add
    \/ Remove
    \/ Move
    \/ Restart
    \/ ExternalDelete
    \/ InterruptedSave
    \/ KilledInReload

SpecCrash == Init /\ [][NextCrash]_vars

\* Commands that run while an add waits for its send
NextAsync ==
    \/ BeginAdd
    \/ EndAdd
    \/ Add
    \/ Move
    \/ ExternalDelete

SpecAsync == Init /\ [][NextAsync]_vars

\* The tag command with every member of Tag, on listings as the add command
\* leaves them: one listing of guild 1, its message sent and the file written
InitTags ==
    \E id \in Ids, t \in InitialTags :
        LET l == [Listing(id, t) EXCEPT !.message = [id |-> 1, channel |-> NewChannel(1)]]
            L == DictSet(EmptyDict, 1, <<l>>)
        IN  /\ LISTINGS = L
            /\ FILE = save_all_listings(L, [exists |-> FALSE, data |-> EmptyDict]).F
            /\ live = DictSet(EmptyDict, 1, [channel |-> NewChannel(1), title |-> build_embed(l)])
            /\ nextMsg = 2
            /\ last = [op |-> "add", out |-> "ok", at |-> ""]
            /\ inflight = Idle

\* modify_tags in one mode; respond and the edit succeed.  last.at tells
\* whether the call left the tag list as it was
TagCommand(mode) ==
    \E g \in DOMAIN LISTINGS, id \in Ids, k \in 1..Len(TagNames) :
        /\ get_from_id(LISTINGS, g, id) # 0
        /\ \E r \in {modify_tags(g, id, mode, TagNames[k], TRUE, TRUE)} :
             /\ LISTINGS' = r.L
             /\ FILE' = r.F
             /\ live' = r.live
             /\ nextMsg' = r.next
             /\ last' = [op |-> mode, out |-> r.out,
                         at |-> IF r.L = LISTINGS THEN "no change" ELSE r.at]
             /\ inflight' = inflight

AddTag == TagCommand("ADD")
RemoveTag == TagCommand("REMOVE")

NextTags ==
    \/ AddTag
    \/ RemoveTag

SpecTags == InitTags /\ [][NextTags]_vars

---------------------------------------------------------------------------
(* The properties *)

At(L, p) == L[p[1]][p[2]]
RecordAt(F, q) == F.data[q[1]][q[2]]

\* The commands, by the name last records
CommandOps == {"add", "remove", "tag", "add-address", "add-tour-date", "move"}
EditOps == {"tag", "add-address", "add-tour-date"}

\* C1: every listing of the registry has exactly one live representation: its
\* message handle is set, the message exists on the platform, and no other
\* listing holds the same message.
C1_OneLiveRepresentation ==
    \A p \in AllListings(LISTINGS) :
        /\ At(LISTINGS, p).message # NoMessage
        /\ At(LISTINGS, p).message.id \in DOMAIN live
        /\ \A q \in AllListings(LISTINGS) \ {p} :
               At(LISTINGS, q).message.id # At(LISTINGS, p).message.id

\* C2: no two listings of one guild's collection have the same id.
C2_IdsUniquePerGuild ==
    \A g \in DOMAIN LISTINGS :
        \A i, j \in 1..Len(LISTINGS[g]) :
            i # j => LISTINGS[g][i].id # LISTINGS[g][j].id

\* C3: when a command has changed the registry and returns to its caller
\* (normally or by an exception), listings.json holds the serialization of
\* the whole registry as it then is.
C3_SnapshotMirrorsRegistry ==
    [][(last'.op \in CommandOps /\ LISTINGS' # LISTINGS)
         => /\ CanSnapshot(LISTINGS')
            /\ FILE' = [exists |-> TRUE, data |-> Snapshot(LISTINGS')]]_vars

\* C4: when a tag, address or tour-time command has changed a field of a
\* listing and the edit of its message then fails, the change is in the
\* registry and also in listings.json when the command ends.
C4_FailedRenderStillPersists ==
    [][(/\ last'.op \in EditOps
        /\ last'.at = "edit"
        /\ last'.out = "DiscordException"
        /\ LISTINGS' # LISTINGS)
         => FILE' = [exists |-> TRUE, data |-> Snapshot(LISTINGS')]]_vars

\* C5: after a member has deleted a message, a move invoked for a listing
\* whose message no longer exists on the platform still creates the new
\* message in the target channel, makes it the listing's handle and writes
\* listings.json.
C5_MoveOfDeletedMessageProceeds ==
    \A g \in DOMAIN LISTINGS, k \in MoveTargets :
        \A i \in 1..Len(LISTINGS[g]) :
            LET l == LISTINGS[g][i]
                m == l.message.id
                T == ChannelId(g, k)
                r == move_listing_if_exists(g, m, T, TRUE, TRUE)
            IN  (/\ last.op = "external-delete"
                 /\ l.message # NoMessage
                 /\ m \notin DOMAIN live
                 /\ get_listing_for_message(LISTINGS, g, m) = i)
                  => /\ r.L[g][i].message.id \in DOMAIN r.live
                     /\ r.L[g][i].message.channel = T
                     /\ r.live[r.L[g][i].message.id].channel = T
                     /\ r.F = [exists |-> TRUE, data |-> Snapshot(r.L)]

\* C6: a move whose send of the new message fails ends with the exception
\* raised to the caller; the registry and listings.json are as they were, so
\* the listing is in both as far as it was before; the listing's old message is
\* gone from the platform, and a reload finds every record of the file that
\* names that message unresolvable.
C6_FailedCreationKeepsListing ==
    [][(last'.op = "move" /\ last'.at = "send")
         => /\ last'.out = "DiscordException"
            /\ LISTINGS' = LISTINGS
            /\ FILE' = FILE
            /\ \E p \in AllListings(LISTINGS') :
                 LET m == At(LISTINGS', p).message.id
                 IN  /\ m \in DOMAIN live
                     /\ live' = DictPop(live, m)
                     /\ \A q \in AllRecords(FILE') :
                          RecordAt(FILE', q).message = m
                            => LET d == deserialize(RecordAt(FILE', q), TRUE, TRUE,
                                                    EmptyDict, FILE', live')
                               IN  ~d.ok /\ d.exc = "none"]_vars

\* A move has failed at its send: the listing is in the registry and in the
\* file, and its message is gone
C6_Witness ==
    /\ last = [op |-> "move", out |-> "DiscordException", at |-> "send"]
    /\ \E p \in AllListings(LISTINGS) :
         /\ At(LISTINGS, p).message # NoMessage
         /\ At(LISTINGS, p).message.id \notin DOMAIN live
         /\ \E q \in AllRecords(FILE) :
              /\ RecordAt(FILE, q).message = At(LISTINGS, p).message.id
              /\ RecordAt(FILE, q).id = At(LISTINGS, p).id

\* C7: a move of a listing to channel T in which the delete and the send
\* succeed leaves the old message gone, exactly one new message, in T, showing
\* the listing, the listing's handle on that message, every other field and
\* the position of the listing unchanged, and channel T in the listing's
\* record of listings.json.
C7_MovePostcondition ==
    \A g \in DOMAIN LISTINGS, k \in MoveTargets :
        \A i \in 1..Len(LISTINGS[g]) :
            LET l == LISTINGS[g][i]
                m == l.message.id
                T == ChannelId(g, k)
                r == move_listing_if_exists(g, m, T, TRUE, TRUE)
                h == r.L[g][i].message
            IN  (/\ l.message # NoMessage
                 /\ m \in DOMAIN live
                 /\ get_listing_for_message(LISTINGS, g, m) = i)
                  => /\ m \notin DOMAIN r.live
                     /\ (DOMAIN r.live) \ (DOMAIN live) = {h.id}
                     /\ r.live[h.id] = [channel |-> T, title |-> url(l.id)]
                     /\ h.channel = T
                     /\ r.L = [LISTINGS EXCEPT ![g][i].message = h]
                     /\ r.F.exists
                     /\ str(g) \in DOMAIN r.F.data
                     /\ i <= Len(r.F.data[str(g)])
                     /\ r.F.data[str(g)][i].id = l.id
                     /\ r.F.data[str(g)][i].message = h.id
                     /\ r.F.data[str(g)][i].channel = T

\* C8: a reload in which every external call on an existing message succeeds
\* is not aborted by a record that fails, and loads every record that is well
\* formed and whose message exists.
C8_BadRecordDroppedAlone ==
    FILE.exists =>
        \A keys \in KeyOrders(FILE.data) :
            LET allOK == [j \in 1..NumRecords(FILE.data) |-> TRUE]
                r == load_all_listings(EmptyDict, keys, allOK, allOK)
            IN  /\ r.at # "deserialize"
                /\ \A q \in AllRecords(FILE) :
                     (WellFormed(RecordAt(FILE, q)) /\ RecordAt(FILE, q).message \in DOMAIN live)
                       => /\ int(q[1]) \in DOMAIN r.L
                          /\ \E i \in 1..Len(r.L[int(q[1])]) :
                               /\ r.L[int(q[1])][i].id = RecordAt(FILE, q).id
                               /\ r.L[int(q[1])][i].message.id = RecordAt(FILE, q).message

\* C9: for a registry R in which every listing's message exists, writing the
\* snapshot of R and loading it into an empty registry, every fetch
\* succeeding, yields R.
C9_RoundTrip ==
    (/\ CanSnapshot(LISTINGS)
     /\ \A p \in AllListings(LISTINGS) : At(LISTINGS, p).message.id \in DOMAIN live)
      => LET F0 == [exists |-> TRUE, data |-> Snapshot(LISTINGS)]
             n == NumRecords(F0.data)
         IN  \A keys \in KeyOrders(F0.data), edit \in [1..n -> BOOLEAN] :
                 load_loop(Records(F0.data, keys), [j \in 1..n |-> TRUE], edit,
                           1, EmptyDict, F0, live).L = LISTINGS

\* The round trip when, beyond every fetch, every re-render of the reload
\* succeeds as well
RoundTripWhenEveryEditSucceeds ==
    (/\ CanSnapshot(LISTINGS)
     /\ \A p \in AllListings(LISTINGS) : At(LISTINGS, p).message.id \in DOMAIN live)
      => LET F0 == [exists |-> TRUE, data |-> Snapshot(LISTINGS)]
             allOK == [j \in 1..NumRecords(F0.data) |-> TRUE]
         IN  \A keys \in KeyOrders(F0.data) :
                 load_loop(Records(F0.data, keys), allOK, allOK,
                           1, EmptyDict, F0, live).L = LISTINGS

\* The messages the registry or the file names that no longer exist
Orphans ==
    ({At(LISTINGS, p).message.id : p \in AllListings(LISTINGS)}
       \cup {RecordAt(FILE, q).message : q \in AllRecords(FILE)})
    \ ({0} \cup DOMAIN live)

\* C10: after a member has deleted a message, a reload that completes leaves
\* no listing in the registry and no record in the re-saved file that names a
\* message deleted before the reload, and a guild all of whose records named
\* deleted messages has no entry in the registry or in the file.
C10_OrphanDrop ==
    (FILE.exists /\ last.op = "external-delete") =>
        \A keys \in KeyOrders(FILE.data), w \in Weather(FILE.data) :
            LET r == load_all_listings(LISTINGS, keys,
                                       [j \in DOMAIN w |-> w[j] # "fetch"],
                                       [j \in DOMAIN w |-> w[j] # "edit"])
            IN  r.out = "ok"
                  => /\ \A p \in AllListings(r.L) : At(r.L, p).message.id \notin Orphans
                     /\ \A q \in AllRecords(r.F) : RecordAt(r.F, q).message \notin Orphans
                     /\ \A k \in DOMAIN FILE.data :
                          (\A i \in 1..Len(FILE.data[k]) :
                               FILE.data[k][i].message \notin DOMAIN live)
                            => int(k) \notin DOMAIN r.L /\ k \notin DOMAIN r.F.data

\* The same for the reload of a process that starts, whose registry is empty
OrphanDropInFreshProcess ==
    FILE.exists =>
        \A keys \in KeyOrders(FILE.data), w \in Weather(FILE.data) :
            LET r == load_all_listings(EmptyDict, keys,
                                       [j \in DOMAIN w |-> w[j] # "fetch"],
                                       [j \in DOMAIN w |-> w[j] # "edit"])
            IN  r.out = "ok"
                  => /\ \A p \in AllListings(r.L) : At(r.L, p).message.id \notin Orphans
                     /\ \A q \in AllRecords(r.F) : RecordAt(r.F, q).message \notin Orphans
                     /\ \A k \in DOMAIN FILE.data :
                          (\A i \in 1..Len(FILE.data[k]) :
                               FILE.data[k][i].message \notin DOMAIN live)
                            => int(k) \notin DOMAIN r.L /\ k \notin DOMAIN r.F.data

\* C11: at every instant listings.json, once it exists, holds a whole
\* document (the prior snapshot or the new one), never an empty or partly
\* written text; this includes a kill of the process or an I/O error at any
\* point of a write.
C11_FileAlwaysWhole ==
    FILE.exists => IsDocument(FILE)

\* The listings of guild g with the id
WithId(L, g, id) ==
    IF g \in DOMAIN L THEN {i \in 1..Len(L[g]) : L[g][i].id = id} ELSE {}

\* C12: in a registry every listing of which has a message handle, a remove
\* command for a listing, whose message may already have been deleted on the
\* platform, ends with that listing gone from the guild's collection, no
\* record of it in listings.json, and its message not existing on the platform.
C12_RemoveAlwaysRemoves ==
    \A g \in DOMAIN LISTINGS, id \in Ids :
        LET i == get_from_id(LISTINGS, g, id)
            r == remove_listing(g, id, TRUE)
            m == LISTINGS[g][i].message.id
        IN  (i # 0 /\ CanSnapshot(LISTINGS))
              => /\ Cardinality(WithId(r.L, g, id)) = Cardinality(WithId(LISTINGS, g, id)) - 1
                 /\ \A q \in AllRecords(r.F) : RecordAt(r.F, q).message # m
                 /\ m \notin DOMAIN r.live

\* C13: no guild has an entry with an empty collection, in the registry or in
\* listings.json: an entry appears with its first listing and goes with its
\* last.
C13_NoEmptyWorkspace ==
    /\ \A g \in DOMAIN LISTINGS : Len(LISTINGS[g]) > 0
    /\ \A k \in DOMAIN FILE.data : Len(FILE.data[k]) > 0

\* A remove has taken the last listing of the registry: no entry is left, in
\* the registry or in the file it wrote
C13_Witness ==
    /\ last = [op |-> "remove", out |-> "ok", at |-> ""]
    /\ LISTINGS = EmptyDict
    /\ FILE = [exists |-> TRUE, data |-> EmptyDict]

\* A handler run that left the registry, the file and the platform as they were
ChangesNothing(r) == r.L = LISTINGS /\ r.F = FILE /\ r.live = live

\* The existing messages of guild g that are no listing's message
StrayMessages(g) ==
    {m \in DOMAIN live :
        /\ ChannelGuild(live[m].channel) = g
        /\ g \in DOMAIN LISTINGS => \A i \in 1..Len(LISTINGS[g]) : LISTINGS[g][i].message.id # m}

\* C14: an add that is answered "invalid url", a remove, tag, add-address or
\* add-tour-date for an id that no listing of the guild has, and a move for a
\* message that is no listing's message leave the registry, listings.json and
\* every message as they were, whatever their other inputs.
C14_FailedLookupChangesNothing ==
    \A g \in Guilds :
        /\ \A u \in Urls, a \in {None} \cup Addresses, t \in InitialTags, ok \in BOOLEAN :
               LET r == add_listing(g, u, a, t, ok)
               IN  r.out = "invalid" => ChangesNothing(r)
        /\ \A id \in Ids, ok \in BOOLEAN :
               get_from_id(LISTINGS, g, id) = 0
                 => /\ ChangesNothing(remove_listing(g, id, ok))
                    /\ \A mode \in ModificationMode, tag \in TagChoices, rok \in BOOLEAN :
                          ChangesNothing(modify_tags(g, id, mode, tag, rok, ok))
                    /\ \A time \in Times : ChangesNothing(add_tour_time(g, id, time, ok))
                    /\ \A a \in {None} \cup Addresses :
                          ChangesNothing(add_address(g, id, a, ok))
        /\ \A m \in StrayMessages(g), k \in MoveTargets, dok \in BOOLEAN, sok \in BOOLEAN :
               ChangesNothing(move_listing_if_exists(g, m, ChannelId(g, k), dok, sok))

\* A guild with a listing, an id none of its listings has, and a message
\* that is no listing's: the remove raises at its lookup, the move answers
\* that no listing goes with the message
C14_Witness ==
    \E g \in DOMAIN LISTINGS, id \in Ids, k \in MoveTargets :
        /\ FILE.exists
        /\ get_from_id(LISTINGS, g, id) = 0
        /\ remove_listing(g, id, TRUE).at = "lookup"
        /\ \E m \in StrayMessages(g) :
               move_listing_if_exists(g, m, ChannelId(g, k), TRUE, TRUE).out = "notfound"
        /\ \E u \in Urls : add_listing(g, u, None, Tag[1], TRUE).out = "invalid"

\* The collection of guild g, empty when it has no entry
Part(L, g) == IF g \in DOMAIN L THEN L[g] ELSE <<>>

\* Two runs of a command of guild g end alike: the same outcome, the same
\* listings of g, the same records of g in the file
SameFor(g, r0, r1) ==
    /\ r1.out = r0.out
    /\ Part(r1.L, g) = Part(r0.L, g)
    /\ r1.F.exists = r0.F.exists
    /\ Part(r1.F.data, str(g)) = Part(r0.F.data, str(g))

\* C15: when a command of guild A becomes suspended at an external call,
\* every command of another guild B, with any inputs and any outcomes of its
\* external calls, ends as it would have ended before: the same outcome, the
\* same listings of B and the same records of B in listings.json.
C15_OtherGuildUnaffected ==
    [][(inflight = Idle /\ inflight' # Idle)
         => \A g \in Guilds \ {inflight'.guild} :
              /\ \A u \in Urls, t \in InitialTags, ok \in BOOLEAN :
                     SameFor(g, add_listing(g, u, None, t, ok),
                                add_listing(g, u, None, t, ok)')
              /\ \A id \in Ids, ok \in BOOLEAN :
                     SameFor(g, remove_listing(g, id, ok), remove_listing(g, id, ok)')
              /\ \A m \in MessagesOf(g), k \in MoveTargets :
                     SameFor(g, move_listing_if_exists(g, m, ChannelId(g, k), TRUE, TRUE),
                                move_listing_if_exists(g, m, ChannelId(g, k), TRUE, TRUE)')]_vars

\* C16: while a command of a guild is between its lookup and the write of its
\* snapshot, no other command changes the listings of that guild.
C16_GuildAccessSerialized ==
    [][(inflight # Idle /\ inflight' = inflight)
         => Part(LISTINGS', inflight.guild) = Part(LISTINGS, inflight.guild)]_vars


\* C17: every transition between two distinct channels of a guild can be made
\* by a move command.  For every listing whose message exists in a channel S
\* and is found by the lookup, and every other channel T of the guild, some
\* message command moves the listing's representation to T.
C17_EveryTransitionHasACommand ==
    \A g \in DOMAIN LISTINGS : \A i \in 1..Len(LISTINGS[g]) :
        LET l == LISTINGS[g][i]
        IN  (/\ l.message # NoMessage
             /\ l.message.id \in DOMAIN live
             /\ CanSnapshot(LISTINGS)
             /\ get_listing_for_message(LISTINGS, g, l.message.id) = i)
            => \A t \in 1..Len(ChannelNames) :
                   ChannelId(g, t) # live[l.message.id].channel
                   => \E k \in MoveTargets :
                          LET r == move_listing_if_exists(g, l.message.id,
                                       ChannelId(g, k), TRUE, TRUE)
                          IN  /\ r.out = "ok"
                              /\ r.L[g][i].message.id \in DOMAIN r.live
                              /\ r.live[r.L[g][i].message.id].channel = ChannelId(g, t)


\* What may follow the digits of a canonical URL: nothing, or a query string
QueryStrings == {"", "?x=1"}

\* https://www.immobilienscout24.de/expose/<digits>, optionally with a query
IsCanonical(u) == u.prefix /\ u.digits # <<>> /\ u.rest \in QueryStrings

\* C18: for every input of the add command, a canonical URL creates a listing
\* whose id is the digit sequence as an integer, and every other input is
\* rejected as invalid and creates no listing.
C18_OnlyCanonicalUrlsAccepted ==
    \A g \in Guilds, u \in Urls :
        LET r == add_listing(g, u, None, Tag[1], TRUE)
        IN  IF IsCanonical(u)
            THEN /\ g \in DOMAIN r.L
                 /\ r.L[g] # <<>>
                 /\ r.L[g][Len(r.L[g])].id = DigitsToInt(u.digits)
                 /\ Size(r.L) = Size(LISTINGS) + 1
            ELSE /\ r.out = "invalid"
                 /\ r.L = LISTINGS
                 /\ r.live = live


NoTagTwice(l) ==
    \A j, k \in 1..Len(l.tags) : l.tags[j] = l.tags[k] => j = k

HasTag(l, t) == \E k \in 1..Len(l.tags) : l.tags[k] = t

\* C19: tags behave as a set.  For every listing of the registry and every
\* tag t: no tag is in the list twice; add_tag(t) puts t in the list and a
\* second add_tag(t) changes nothing; remove_tag(t) takes t out of the list,
\* and on a listing without t it changes nothing.  (Neither method has a
\* raising statement: both test membership before they touch the list.)
C19_TagsAreASet ==
    \A g \in DOMAIN LISTINGS : \A i \in 1..Len(LISTINGS[g]) :
        LET l == LISTINGS[g][i]
        IN  /\ NoTagTwice(l)
            /\ \A k \in 1..Len(Tag) :
                 LET t == Tag[k]
                 IN  /\ HasTag(add_tag(l, t), t)
                     /\ NoTagTwice(add_tag(l, t))
                     /\ add_tag(add_tag(l, t), t) = add_tag(l, t)
                     /\ ~HasTag(remove_tag(l, t), t)
                     /\ ~HasTag(l, t) => remove_tag(l, t) = l
                     /\ HasTag(l, t) => add_tag(l, t) = l

\* an ADD of a tag the listing already had has just run on a listing of
\* three or more tags
C19_Witness ==
    /\ last = [op |-> "ADD", out |-> "ok", at |-> "no change"]
    /\ \E g \in DOMAIN LISTINGS : \E i \in 1..Len(LISTINGS[g]) :
           Len(LISTINGS[g][i].tags) >= 3


\* the file F holds a record of the message m
HasRecordOf(F, m) ==
    \E g \in DOMAIN F.data : \E i \in 1..Len(F.data[g]) : F.data[g][i].message = m

\* C20: reload is crash-safe.  Whenever a starting process reads a whole
\* file and stops after any number of its records, the file it leaves still
\* holds a record for every record of the file read whose message exists and
\* that the load had not reached, or had fetched and re-rendered without
\* failure.
C20_ReloadCrashSafe ==
    (FILE.exists /\ IsDocument(FILE))
    => \A keys \in KeyOrders(FILE.data), w \in Weather(FILE.data) :
         \A stop \in 1..NumRecords(FILE.data) :
           LET recs == Records(FILE.data, keys)
               r == load_prefix(recs,
                                [j \in DOMAIN w |-> w[j] # "fetch"],
                                [j \in DOMAIN w |-> w[j] # "edit"],
                                1, stop, EmptyDict, FILE, live)
           IN  r.out = "killed"
               => \A j \in 1..Len(recs) :
                    (/\ recs[j].data.message \in DOMAIN live
                     /\ j > stop \/ w[j] = "ok")
                    => HasRecordOf(r.F, recs[j].data.message)

=============================================================================
